---- MODULE Spec2Model ----
(***************************************************************************)
(* FM-200 room-flooding estimation tool: the calculator page, the results  *)
(* page and the quotation page of the browser application, in the four     *)
(* revisions of script.js that the repository holds:                       *)
(*   "script"  src/script.js          (v4.0, externalised price table)     *)
(*   "p000"    src/unnamed/part_000   (v3.0, hardcoded price table)        *)
(*   "p001"    src/unnamed/part_001   (v3.0, externalised price table)     *)
(*   "p004"    src/unnamed/part_004   (v2.0.2, configData)                 *)
(*                                                                         *)
(* Numbers.  JavaScript numbers are modelled as exact non-negative         *)
(* rationals in mixed form i + n/d (0 <= n < d, n/d in lowest terms), so   *)
(* that every intermediate keeps full precision and rounding happens only  *)
(* where the code rounds.  d = 0 marks a non-finite value (NaN; the        *)
(* infinities of a division by zero are folded into it).  The mixed form   *)
(* keeps every machine integer of the evaluation small.                    *)
(***************************************************************************)
EXTENDS Integers, Sequences, FiniteSets, TLC

----------------------------------------------------------------------------
(* Arithmetic on JavaScript numbers                                        *)

RECURSIVE GCD(_, _)
GCD(a, b) == IF b = 0 THEN a ELSE GCD(b, a % b)

NaN == [i |-> 0, n |-> 0, d |-> 0]

IsNaN(x) == x.d = 0

\* what JSON.stringify makes of NaN: null, which arithmetic reads as 0
JsonNull == [i |-> 0, n |-> 0, d |-> -1]

ToNumber(x) == IF x = JsonNull THEN [i |-> 0, n |-> 0, d |-> 1] ELSE x

\* i + n/d brought to mixed form in lowest terms (i, n >= 0, d > 0)
Norm(i, n, d) ==
    LET r == n % d
        g == GCD(d, r)
    IN  [i |-> i + (n \div d), n |-> r \div g, d |-> d \div g]

Num(k) == [i |-> k, n |-> 0, d |-> 1]

\* the decimal literal a/b
Frac(a, b) == Norm(0, a, b)

IsZero(x) == ~IsNaN(x) /\ x.i = 0 /\ x.n = 0

Add(x, y) ==
    IF IsNaN(x) \/ IsNaN(y) THEN NaN
    ELSE LET g == GCD(x.d, y.d)
         IN  Norm(x.i + y.i, x.n * (y.d \div g) + y.n * (x.d \div g),
                  (x.d \div g) * y.d)

\* k * (n/d) for an integer k
MulIF(k, n, d) ==
    LET r == k % d
        g == GCD(d, r)
    IN  Norm((k \div d) * n, (r \div g) * n, d \div g)

Mul(x, y) ==
    IF IsNaN(x) \/ IsNaN(y) THEN NaN
    ELSE LET g1 == GCD(y.d, x.n)
             g2 == GCD(x.d, y.n)
             ff == Norm(0, (x.n \div g1) * (y.n \div g2),
                           (x.d \div g2) * (y.d \div g1))
         IN  Add(Add(Num(x.i * y.i), MulIF(x.i, y.n, y.d)),
                 Add(MulIF(y.i, x.n, x.d), ff))

\* x / y; a zero divisor gives a non-finite quotient
Div(x, y) ==
    IF IsNaN(x) \/ IsNaN(y) \/ IsZero(y) THEN NaN
    ELSE Mul(x, Norm(0, y.d, y.i * y.d + y.n))

Less(x, y) ==
    /\ ~IsNaN(x) /\ ~IsNaN(y)
    /\ \/ x.i < y.i
       \/ x.i = y.i /\ x.n * y.d < y.n * x.d

Leq(x, y) == ~IsNaN(x) /\ ~IsNaN(y) /\ ~Less(y, x)

\* Math.max
Max(x, y) == IF IsNaN(x) \/ IsNaN(y) THEN NaN ELSE IF Less(x, y) THEN y ELSE x

\* Math.ceil
Ceil(x) == IF IsNaN(x) THEN NaN ELSE IF x.n = 0 THEN x ELSE Num(x.i + 1)

\* x - y for y <= x
Sub(x, y) ==
    IF IsNaN(x) \/ IsNaN(y) THEN NaN
    ELSE LET g == GCD(x.d, y.d)
             l == (x.d \div g) * y.d
             a == x.n * (y.d \div g)
             b == y.n * (x.d \div g)
         IN  IF a >= b THEN Norm(x.i - y.i, a - b, l)
                       ELSE Norm(x.i - y.i - 1, a + l - b, l)

\* |x - y|
Dist(x, y) == IF Less(x, y) THEN Sub(y, x) ELSE Sub(x, y)

\* |x - y| <= t
Within(x, y, t) == ~IsNaN(x) /\ ~IsNaN(y) /\ Leq(Dist(x, y), t)

\* round(value, decimals): Math.round(value + 'e' + decimals) + 'e-' + decimals,
\* i.e. half-up at the given number of decimals; p = 10^decimals
round(x, p) ==
    IF IsNaN(x) THEN NaN
    ELSE Norm(x.i, (2 * x.n * p + x.d) \div (2 * x.d), p)

RECURSIVE SumSeq(_)
SumSeq(s) == IF s = <<>> THEN Num(0) ELSE Add(Head(s), SumSeq(Tail(s)))

----------------------------------------------------------------------------
(* Configuration: price tables and exchange rates                          *)

Builds == {"script", "p000", "p001", "p004"}

\* the price table of the v3/v4 revisions (hardcoded in part_000; the
\* externalised revisions read the same keys from data.json)
FullPriceTable ==
    [agentCostPerKg |-> Frac(4850, 100), cylinderCost |-> Num(1250),
     nozzleCost |-> Num(175), pipingCostPerMeter |-> Num(45),
     fittingsCost |-> Num(320), valveAssembly |-> Num(450),
     mountingHardware |-> Num(85), detectionPanel |-> Num(2200),
     smokeDetector |-> Num(95), heatDetector |-> Num(85),
     manualCallPoint |-> Num(65), hooterStrobe |-> Num(75),
     warningSigns |-> Num(45), installationLaborPerHour |-> Num(85),
     engineeringDesign |-> Num(2500), commissioningTesting |-> Num(1800),
     documentation |-> Num(450), installationFactor |-> Frac(128, 100),
     engineeringFactor |-> Frac(115, 100), contingencyFactor |-> Frac(110, 100)]

\* the table installed when data.json answers with a status other than 200
FallbackPriceTable ==
    [agentCostPerKg |-> Frac(4850, 100), cylinderCost |-> Num(1250),
     valveAssembly |-> Num(450), installationFactor |-> Frac(128, 100),
     engineeringFactor |-> Frac(115, 100), contingencyFactor |-> Frac(110, 100)]

\* let COST_MULTIPLIERS = {} : what stays in effect when loading throws
EmptyTable == [k \in {} |-> NaN]

\* configData.costMultipliers of the v2 revision
P004PriceTable ==
    [agentCostPerKg |-> Frac(485, 10), cylinderCost |-> Num(1250),
     nozzleCost |-> Num(175), pipingCostPerMeter |-> Num(45),
     detectionSystem |-> Num(1800), actuationDevice |-> Num(450),
     controlPanel |-> Num(2200), warningSigns |-> Num(85),
     installationLabor |-> Num(3200), documentation |-> Num(450),
     installationFactor |-> Frac(128, 100), engineeringFactor |-> Frac(115, 100)]

FullRates ==
    [USD |-> Num(1), EUR |-> Frac(92, 100), INR |-> Frac(8350, 100),
     AED |-> Frac(367, 100), GBP |-> Frac(79, 100), CAD |-> Frac(136, 100),
     AUD |-> Frac(152, 100)]

FallbackRates == [USD |-> Num(1)]

P004Rates ==
    [USD |-> Num(1), EUR |-> Frac(92, 100), INR |-> Frac(835, 10),
     AED |-> Frac(367, 100)]

\* the outcomes of loading data.json that a revision distinguishes
LoadOutcomes(b) ==
    CASE b = "p000" -> {"loaded"}
      [] b = "p004" -> {"loaded", "fallback"}
      [] OTHER      -> {"loaded", "fallback", "threw"}

\* the price table in effect after loadExternalData / loadConfigData
COST_MULTIPLIERS(b, load) ==
    CASE b = "p000"       -> FullPriceTable
      [] b = "p004"       -> P004PriceTable
      [] load = "loaded"  -> FullPriceTable
      [] load = "fallback" -> FallbackPriceTable
      [] OTHER            -> EmptyTable

EXCHANGE_RATES(b, load) ==
    CASE b = "p000"       -> FullRates
      [] b = "p004"       -> P004Rates
      [] load = "loaded"  -> FullRates
      [] load = "fallback" -> FallbackRates
      [] OTHER            -> EmptyTable

\* m.key : a missing key reads as undefined, which arithmetic turns into NaN
Price(m, k) == IF k \in DOMAIN m THEN m[k] ELSE NaN

\* a rate lookup without the fallback: a missing code reads as undefined
RateWithoutFallback(rates, currency) ==
    IF currency \in DOMAIN rates THEN rates[currency] ELSE NaN

\* EXCHANGE_RATES[currency] || 1
RateOf(rates, currency) ==
    IF currency \in DOMAIN rates /\ ~IsZero(rates[currency])
    THEN rates[currency] ELSE Num(1)

----------------------------------------------------------------------------
(* The form and its validation (collectFormData)                           *)
(* Form fields are the numbers typed into the inputs: lengths in m,        *)
(* temperature in C, altitude in m, concentration in tenths of a percent,  *)
(* equipment volume in m3, safety factor in percent, cylinder size in      *)
(* tenths of a kg.                                                         *)

SPECIFIC_VAPOR_BASE == Frac(1269, 10000)

SPECIFIC_VAPOR_TEMP_FACTOR == Frac(5, 10000)

\* APP_CONFIG.MIN_CONCENTRATION, in percent
MIN_CONCENTRATION == 7

\* the validation errors of a form, in the order the code pushes them
FormErrors(b, f) ==
    LET dims == IF f.roomLength <= 0 \/ f.roomWidth <= 0 \/ f.roomHeight <= 0
                THEN <<"Room dimensions must be greater than zero">> ELSE <<>>
        conc == IF f.concentration < 70 \/ f.concentration > 105
                THEN <<"Concentration must be between 7.0% and 10.5%">> ELSE <<>>
        temp == IF f.temperature < -20 \/ f.temperature > 60
                THEN <<"Temperature must be between -20C and 60C">> ELSE <<>>
        alt  == IF f.altitude < 0
                THEN <<"Altitude cannot be negative">> ELSE <<>>
        sf   == IF f.safetyFactor < 100 \/ f.safetyFactor > 150
                THEN <<"Safety factor must be between 100% and 150%">> ELSE <<>>
        req  == IF f.roomLength = 0 \/ f.roomWidth = 0 \/ f.roomHeight = 0
                THEN <<"Please fill all required fields">> ELSE <<>>
    IN  CASE b = "script" -> dims \o conc
          [] b = "p004"   -> IF req # <<>> THEN req ELSE dims
          [] OTHER        -> dims \o temp \o alt \o sf

\* collectFormData: the form data, or the errors it reports
collectFormData(b, f) ==
    [ok |-> FormErrors(b, f) = <<>>, formData |-> f, errors |-> FormErrors(b, f)]

----------------------------------------------------------------------------
(* Sizing Engine (performNFPA2001Calculation / calculateFM200)             *)

\* S = 0.1269 + 0.0005 * T
SpecificVaporVolume(t) ==
    IF 1269 + 5 * t >= 0
    THEN Add(SPECIFIC_VAPOR_BASE, Mul(SPECIFIC_VAPOR_TEMP_FACTOR, Num(t)))
    ELSE NaN

\* a net volume that stays at the floor whatever the room is
NetVolumeAtFloor(b, gross, equipmentVolume) == Frac(1, 10)

\* netVolume of each revision
NetVolume(b, gross, equipmentVolume) ==
    CASE b = "script" -> gross
      [] b = "p004"   -> IF Less(gross, Num(equipmentVolume)) THEN Num(0)
                         ELSE Sub(gross, Num(equipmentVolume))
      [] OTHER        -> IF Less(gross, Num(equipmentVolume)) THEN Frac(1, 10)
                         ELSE Max(Frac(1, 10), Sub(gross, Num(equipmentVolume)))

\* the altitude correction factor of each revision
AltitudeFactor(b, altitude) ==
    IF altitude > 500
    THEN IF b = "p004"
         THEN Add(Num(1), Div(Num(altitude), Num(10000)))
         ELSE Add(Num(1), Mul(Div(Num(altitude - 500), Num(300)), Frac(1, 100)))
    ELSE Num(1)

\* the concentration C used in the formula, in percent
ConcentrationOf(b, f) ==
    IF b = "script" THEN Frac(f.concentration, 10) ELSE Num(MIN_CONCENTRATION)

\* a sizing that leaves the safety factor out
SafetyFactorOmitted(b, f) == Num(1)

\* the safety factor multiplied in (script.js has none)
SafetyFactorOf(b, f) ==
    IF b = "script" THEN Num(1) ELSE Frac(f.safetyFactor, 100)

\* the cylinder size in kg (script.js fixes 54.4)
CylinderSizeOf(b, f) ==
    IF b = "script" THEN Frac(544, 10) ELSE Frac(f.cylinderSize, 10)

\* the full-precision agent weight
AgentWeight(b, f) ==
    LET gross == Num(f.roomLength * f.roomWidth * f.roomHeight)
        net   == NetVolume(b, gross, f.equipmentVolume)
        S     == SpecificVaporVolume(f.temperature)
        C     == ConcentrationOf(b, f)
        w0    == Mul(Div(net, S), Div(C, Sub(Num(100), C)))
    IN  Mul(Mul(w0, AltitudeFactor(b, f.altitude)), SafetyFactorOf(b, f))

\* a nozzle count of one nozzle per 100 m2 without a minimum
NozzleCountPerHundred(f) == Ceil(Div(Num(f.roomLength * f.roomWidth), Num(100)))

\* Math.max(2, Math.ceil(floorArea / nozzleCoverage)) with nozzleCoverage = 50
NozzleCount(f) ==
    Max(Num(2), Ceil(Div(Num(f.roomLength * f.roomWidth), Num(50))))

\* a sizing that takes one cylinder whatever the agent weighs
SingleCylinder(agentWeight, cylinderSize) == Num(1)

\* Math.ceil(agentWeight / cylinderSize), on the unrounded weight
CylinderCount(agentWeight, cylinderSize) == Ceil(Div(agentWeight, cylinderSize))

\* the record the engine returns, from the full-precision agent weight
SizingResult(b, f, agentWeight) ==
    LET gross == Num(f.roomLength * f.roomWidth * f.roomHeight)
        floorArea == Num(f.roomLength * f.roomWidth)
        pipingLength == Num((f.roomLength + f.roomWidth) * 2 + f.roomHeight * 2)
    IN  [agentWeight |-> round(agentWeight, 100),
         cylinderCount |-> CylinderCount(agentWeight, CylinderSizeOf(b, f)),
         nozzleCount |-> NozzleCount(f),
         cylinderSize |-> CylinderSizeOf(b, f),
         grossVolume |-> round(gross, 100),
         netVolume |-> round(NetVolume(b, gross, f.equipmentVolume), 100),
         floorArea |-> round(floorArea, 100),
         pipingLength |-> round(pipingLength, 100),
         specificVaporVolume |-> round(SpecificVaporVolume(f.temperature), 10000),
         concentration |-> ConcentrationOf(b, f)]

performNFPA2001Calculation(b, f) == SizingResult(b, f, AgentWeight(b, f))

----------------------------------------------------------------------------
(* Costing Engine (calculateSystemCosts / calculateCosts)                  *)

\* installationHours * m.installationLaborPerHour
InstallationLabor(cr, m) ==
    Mul(SumSeq(<<Num(40), Mul(cr.cylinderCount, Num(4)), Mul(cr.nozzleCount, Num(2)),
                 Mul(cr.pipingLength, Frac(1, 2))>>),
        Price(m, "installationLaborPerHour"))

\* a subtotal that takes installation labor in with the equipment
EquipmentSubtotalWithLabor(cr, m) ==
    SumSeq(<<Mul(cr.agentWeight, Price(m, "agentCostPerKg")),
             Mul(cr.cylinderCount, Price(m, "cylinderCost")),
             Mul(cr.cylinderCount, Price(m, "valveAssembly")),
             Mul(cr.cylinderCount, Price(m, "mountingHardware")),
             Mul(cr.nozzleCount, Price(m, "nozzleCost")),
             Mul(cr.pipingLength, Price(m, "pipingCostPerMeter")),
             Price(m, "fittingsCost"),
             Price(m, "detectionPanel"),
             Mul(Max(Num(2), Ceil(Div(cr.floorArea, Num(100)))), Price(m, "smokeDetector")),
             Mul(Num(2), Price(m, "heatDetector")),
             Mul(Num(2), Price(m, "manualCallPoint")),
             Mul(Num(4), Price(m, "hooterStrobe")),
             Price(m, "warningSigns"),
             InstallationLabor(cr, m)>>)

\* the full-precision equipment subtotal of calculateSystemCosts
EquipmentSubtotal(cr, m) ==
    SumSeq(<<Mul(cr.agentWeight, Price(m, "agentCostPerKg")),
             Mul(cr.cylinderCount, Price(m, "cylinderCost")),
             Mul(cr.cylinderCount, Price(m, "valveAssembly")),
             Mul(cr.cylinderCount, Price(m, "mountingHardware")),
             Mul(cr.nozzleCount, Price(m, "nozzleCost")),
             Mul(cr.pipingLength, Price(m, "pipingCostPerMeter")),
             Price(m, "fittingsCost"),
             Price(m, "detectionPanel"),
             Mul(Max(Num(2), Ceil(Div(cr.floorArea, Num(100)))), Price(m, "smokeDetector")),
             Mul(Num(2), Price(m, "heatDetector")),
             Mul(Num(2), Price(m, "manualCallPoint")),
             Mul(Num(4), Price(m, "hooterStrobe")),
             Price(m, "warningSigns")>>)

\* base * (factor - 1)
Markup(base, factor) == Mul(base, Sub(factor, Num(1)))

\* the full-precision total in the base currency
TotalUSD(cr, m) ==
    LET equipmentSubtotal == EquipmentSubtotal(cr, m)
        totalEquipmentAndLabor ==
            SumSeq(<<equipmentSubtotal, InstallationLabor(cr, m),
                     Price(m, "engineeringDesign"), Price(m, "commissioningTesting"),
                     Price(m, "documentation")>>)
    IN  SumSeq(<<totalEquipmentAndLabor,
                 Markup(equipmentSubtotal, Price(m, "installationFactor")),
                 Markup(equipmentSubtotal, Price(m, "engineeringFactor")),
                 Markup(equipmentSubtotal, Price(m, "contingencyFactor"))>>)

\* the exchangeRate field: part_000 returns the rate, the later revisions
\* round it to 4 decimals
ReturnedRate(b, rate) == IF b = "p000" THEN rate ELSE round(rate, 10000)

\* calculateSystemCosts of script.js, part_000 and part_001 (part_000 names
\* the two factor costs installationCost and engineeringCost)
calculateSystemCosts(b, cr, currency, m, rates) ==
    LET equipmentSubtotal == EquipmentSubtotal(cr, m)
        installationLabor == InstallationLabor(cr, m)
        totalUSD == TotalUSD(cr, m)
        exchangeRate == RateOf(rates, currency)
    IN  [agentCost |-> round(Mul(cr.agentWeight, Price(m, "agentCostPerKg")), 100),
         cylinderCost |-> round(Mul(cr.cylinderCount, Price(m, "cylinderCost")), 100),
         valveCost |-> round(Mul(cr.cylinderCount, Price(m, "valveAssembly")), 100),
         mountingCost |-> round(Mul(cr.cylinderCount, Price(m, "mountingHardware")), 100),
         nozzleCost |-> round(Mul(cr.nozzleCount, Price(m, "nozzleCost")), 100),
         pipingCost |-> round(Mul(cr.pipingLength, Price(m, "pipingCostPerMeter")), 100),
         fittingsCost |-> round(Price(m, "fittingsCost"), 100),
         detectionCost |-> round(Price(m, "detectionPanel"), 100),
         smokeDetectors |->
             round(Mul(Max(Num(2), Ceil(Div(cr.floorArea, Num(100)))),
                       Price(m, "smokeDetector")), 100),
         heatDetectors |-> round(Mul(Num(2), Price(m, "heatDetector")), 100),
         manualCallPoints |-> round(Mul(Num(2), Price(m, "manualCallPoint")), 100),
         hooterStrobes |-> round(Mul(Num(4), Price(m, "hooterStrobe")), 100),
         warningSigns |-> round(Price(m, "warningSigns"), 100),
         installationLabor |-> round(installationLabor, 100),
         engineeringDesign |-> round(Price(m, "engineeringDesign"), 100),
         commissioningTesting |-> round(Price(m, "commissioningTesting"), 100),
         documentation |-> round(Price(m, "documentation"), 100),
         equipmentSubtotal |-> round(equipmentSubtotal, 100),
         laborSubtotal |->
             round(SumSeq(<<installationLabor, Price(m, "engineeringDesign"),
                            Price(m, "commissioningTesting"),
                            Price(m, "documentation")>>), 100),
         installationFactorCost |->
             round(Markup(equipmentSubtotal, Price(m, "installationFactor")), 100),
         engineeringFactorCost |->
             round(Markup(equipmentSubtotal, Price(m, "engineeringFactor")), 100),
         contingency |->
             round(Markup(equipmentSubtotal, Price(m, "contingencyFactor")), 100),
         totalUSD |-> round(totalUSD, 100),
         totalConverted |-> round(Mul(totalUSD, exchangeRate), 100),
         exchangeRate |-> ReturnedRate(b, exchangeRate),
         currency |-> currency]

\* the markup base of the installation factor in part_004
P004InstallationBase(equipmentSubtotal, installationLaborCost) ==
    Add(equipmentSubtotal, installationLaborCost)

\* calculateCosts of part_004 (toFixed(2) where the later revisions round)
calculateCosts(cr, currency, m, rates) ==
    LET agentCost == Mul(cr.agentWeight, Price(m, "agentCostPerKg"))
        cylinderCost == Mul(cr.cylinderCount, Price(m, "cylinderCost"))
        nozzleCost == Mul(cr.nozzleCount, Price(m, "nozzleCost"))
        pipingCost == Mul(cr.pipingLength, Price(m, "pipingCostPerMeter"))
        actuationCost == Mul(cr.cylinderCount, Price(m, "actuationDevice"))
        installationLaborCost == Price(m, "installationLabor")
        documentationCost == Price(m, "documentation")
        equipmentSubtotal ==
            SumSeq(<<agentCost, cylinderCost, nozzleCost, pipingCost,
                     Price(m, "detectionSystem"), actuationCost,
                     Price(m, "controlPanel"), Price(m, "warningSigns")>>)
        installationCost ==
            Markup(P004InstallationBase(equipmentSubtotal, installationLaborCost),
                   Price(m, "installationFactor"))
        engineeringCost == Markup(equipmentSubtotal, Price(m, "engineeringFactor"))
        totalCostUSD ==
            SumSeq(<<equipmentSubtotal, installationCost, engineeringCost,
                     installationLaborCost, documentationCost>>)
        exchangeRate == RateOf(rates, currency)
    IN  [agentCost |-> round(agentCost, 100),
         cylinderCost |-> round(cylinderCost, 100),
         nozzleCost |-> round(nozzleCost, 100),
         pipingCost |-> round(pipingCost, 100),
         detectionCost |-> round(Price(m, "detectionSystem"), 100),
         actuationCost |-> round(actuationCost, 100),
         controlPanelCost |-> round(Price(m, "controlPanel"), 100),
         warningSignsCost |-> round(Price(m, "warningSigns"), 100),
         installationLaborCost |-> round(installationLaborCost, 100),
         documentationCost |-> round(documentationCost, 100),
         equipmentSubtotal |-> round(equipmentSubtotal, 100),
         installationCost |-> round(installationCost, 100),
         engineeringCost |-> round(engineeringCost, 100),
         totalCostUSD |-> round(totalCostUSD, 100),
         totalCostConverted |-> round(Mul(totalCostUSD, exchangeRate), 100),
         exchangeRate |-> exchangeRate]

\* the costing call of a revision
ComputeCosts(b, cr, currency, m, rates) ==
    IF b = "p004" THEN calculateCosts(cr, currency, m, rates)
    ELSE calculateSystemCosts(b, cr, currency, m, rates)

----------------------------------------------------------------------------
(* Bounds of the model and the inputs of the form                          *)

\* room lengths typed into the form: a negative one, 0, 10..MaxRoomLength and
\* one that takes the floor area above 100 m2
MaxRoomLength == 10

\* currency change events followed per page load
MaxCurrencyChanges == 2

Currencies == {"USD", "EUR", "AED"}

RoomLengths == {-5, 0, 13} \cup (10 .. MaxRoomLength)

Temperatures == {0, 20, 100}

Altitudes == {-100, 0, 500, 800}

Concentrations == {60, 70, 75}

SafetyFactors == {107, 160}

\* equipment volumes below and above the gross volume of the default room
EquipmentVolumes == {50, 400}

\* the values collectFormData takes for fields left empty
DefaultForm(b) ==
    [roomLength |-> 10, roomWidth |-> 8,
     roomHeight |-> IF b = "script" THEN 3 ELSE 4,
     temperature |-> 20, altitude |-> 0,
     concentration |-> IF b = "script" THEN 75 ELSE 10 * MIN_CONCENTRATION,
     equipmentVolume |-> 0, safetyFactor |-> 107, cylinderSize |-> 544,
     currency |-> "USD"]

\* the forms a user fills in: the default with one field changed (a
\* revision's form has only the fields that revision collects)
FormCases(b) ==
    LET d == DefaultForm(b)
    IN  {d}
        \cup {[d EXCEPT !.roomLength = v] : v \in RoomLengths}
        \cup {[d EXCEPT !.temperature = v] : v \in Temperatures}
        \cup {[d EXCEPT !.altitude = v] : v \in Altitudes}
        \cup (IF b = "script"
              THEN {[d EXCEPT !.concentration = v] : v \in Concentrations}
              ELSE {[d EXCEPT !.safetyFactor = v] : v \in SafetyFactors}
                   \cup {[d EXCEPT !.equipmentVolume = v] : v \in EquipmentVolumes}
                   \cup {[d EXCEPT !.currency = v] : v \in Currencies})

----------------------------------------------------------------------------
(* Storage and rendering                                                   *)

\* null / an absent item of sessionStorage
Null == [null |-> TRUE]

\* JSON.parse(JSON.stringify(r)) of a record of numbers: NaN comes back null
JsonNumbers(r) ==
    [k \in DOMAIN r |->
        IF k = "currency" THEN r[k] ELSE IF IsNaN(r[k]) THEN JsonNull ELSE r[k]]

JsonRoundTrip(data) ==
    [k \in DOMAIN data |->
        IF k = "formData" THEN data[k] ELSE JsonNumbers(data[k])]

\* a parsed record of numbers as arithmetic reads it
Coerce(r) == [k \in DOMAIN r |-> IF k = "currency" THEN r[k] ELSE ToNumber(r[k])]

HasCosts(data) == data # Null /\ "costResults" \in DOMAIN data

\* the amount formatCurrency shows: two decimals
formatCurrency(x) == round(ToNumber(x), 100)

\* parseFloat(cell.textContent.replace(/[^0-9.-]+/g, ''))
ParseCell(shown) == shown

\* the base-currency totals of the rows of the BOQ body, in row order
BoqBaseTotals(b, data) ==
    LET c == Coerce(data.costResults)
        r == Coerce(data.calculationResults)
    IN  CASE b = "script" ->
               <<Mul(Div(c.agentCost, r.agentWeight), r.agentWeight),
                 Mul(Div(c.cylinderCost, r.cylinderCount), r.cylinderCount),
                 Mul(Div(c.nozzleCost, r.nozzleCount), r.nozzleCount),
                 Mul(Div(c.pipingCost, r.pipingLength), r.pipingLength),
                 c.detectionCost, c.installationLabor, c.engineeringDesign>>
          [] b = "p000" ->
               <<c.agentCost, c.cylinderCost, c.valveCost, c.nozzleCost,
                 c.pipingCost, c.detectionCost, c.smokeDetectors,
                 c.installationLabor,
                 Add(c.engineeringDesign, c.commissioningTesting)>>
          [] b = "p001" ->
               <<c.agentCost, c.cylinderCost, c.valveCost, c.mountingCost,
                 c.nozzleCost, c.pipingCost, c.fittingsCost, c.detectionCost,
                 c.smokeDetectors, c.heatDetectors, c.manualCallPoints,
                 c.hooterStrobes, c.warningSigns>>
          [] OTHER ->
               <<c.agentCost, c.cylinderCost, c.nozzleCost, c.pipingCost,
                 c.actuationCost, c.detectionCost, c.controlPanelCost,
                 c.warningSignsCost>>

\* the base-currency total behind the grand total of the BOQ footer
GrandTotalBase(b, data) ==
    LET c == Coerce(data.costResults)
    IN  CASE b = "script" ->
               Add(SumSeq(BoqBaseTotals(b, data)),
                   SumSeq(<<c.installationFactorCost, c.engineeringFactorCost,
                            c.contingency>>))
          [] b = "p004" -> c.totalCostUSD
          [] OTHER -> c.totalUSD

\* the converted total the costing engine returned
TotalConverted(b, data) ==
    IF b = "p004" THEN data.costResults.totalCostConverted
    ELSE data.costResults.totalConverted

ConvertAll(amounts, rate) ==
    [k \in 1 .. Len(amounts) |-> formatCurrency(Mul(amounts[k], rate))]

Blank == [currency |-> "", rows |-> <<>>, footer |-> <<>>, summary |-> <<>>]

\* what the results page shows after it is populated from the record:
\* populateResults + populateBOQTable (part_000), renderResultsPage +
\* renderBOQ (part_001), populateBillOfQuantities (part_004)
PopulateResults(b, data) ==
    [currency |-> data.formData.currency,
     rows |-> ConvertAll(BoqBaseTotals(b, data), ToNumber(data.costResults.exchangeRate)),
     footer |-> <<formatCurrency(TotalConverted(b, data))>>,
     summary |-> IF b = "p004" THEN <<>>
                 ELSE <<formatCurrency(TotalConverted(b, data))>>]

\* renderBOQTable of script.js: the footer is recomputed from the rows
renderBOQTable(data) ==
    LET rate == ToNumber(data.costResults.exchangeRate)
    IN  [currency |-> data.costResults.currency,
         rows |-> ConvertAll(BoqBaseTotals("script", data), rate),
         footer |-> <<formatCurrency(Mul(GrandTotalBase("script", data), rate))>>,
         summary |-> <<>>]

----------------------------------------------------------------------------
(* The pages as a state machine                                            *)

VARIABLES
    build,           \* the revision of script.js the pages load
    configLoad,      \* how loading data.json ends where the pages are served
    page,            \* the page open in the browser
    form,            \* the values typed into the calculator form
    sessionStorage,  \* the item BUDGET_DATA, parsed (Null when absent)
    currentData,     \* this.currentData
    display,         \* the amounts the page shows
    notification,    \* the last notification shown
    redirect,        \* the page a pending setTimeout navigates to ("" if none)
    changes,         \* currency change events since the page loaded
    sizingCall,      \* the last call of the sizing engine on this page
    costingCall,     \* the last call of the costing engine on this page
    exported         \* the last CSV file or printout produced on this page

vars == <<build, configLoad, page, form, sessionStorage, currentData, display,
          notification, redirect, changes, sizingCall, costingCall, exported>>

Pages == {"calculator", "results", "quotation"}

Init ==
    /\ build \in Builds
    /\ configLoad \in LoadOutcomes(build)
    /\ page = "calculator"
    /\ form = DefaultForm(build)
    /\ sessionStorage = Null
    /\ currentData = Null
    /\ display = Blank
    /\ notification = <<>>
    /\ redirect = ""
    /\ changes = 0
    /\ sizingCall = Null
    /\ costingCall = Null
    /\ exported = Null

\* the user types into the calculator form
EditForm(f) ==
    /\ page = "calculator"
    /\ f # form
    /\ form' = f
    /\ UNCHANGED <<build, configLoad, page, sessionStorage, currentData, display,
                   notification, redirect, changes, sizingCall, costingCall,
                   exported>>

\* what the submit handler shows when collectFormData rejects the form
ValidationNotice(b, errors) ==
    CASE b = "script" -> errors
      [] b = "p004"   -> <<"Error in calculation. Please check your inputs.">>
      [] OTHER        -> <<"Error: ">> \o errors

\* the object the submit handler stores
CompleteData(b, formData, calculationResults, costResults) ==
    IF b = "script"
    THEN [formData |-> formData, calculationResults |-> calculationResults]
    ELSE [formData |-> formData, calculationResults |-> calculationResults,
          costResults |-> costResults]

\* the rest of the submit handler once both engines have returned: the
\* record is stored and the redirect is scheduled
StoreAndRedirect(formData, calculationResults, costResults, completeData) ==
    /\ sizingCall' = [input |-> formData, output |-> calculationResults]
    /\ costingCall' =
           IF build = "script" THEN costingCall
           ELSE [input |-> calculationResults,
                 currency |-> formData.currency,
                 output |-> costResults]
    /\ sessionStorage' = JsonRoundTrip(completeData)
    /\ currentData' = IF build = "p004" THEN completeData ELSE currentData
    /\ notification' = <<"Calculation successful">>
    /\ redirect' = "results"

\* the submit handler from the costing call on
CostAndStore(formData, calculationResults, costResults) ==
    StoreAndRedirect(formData, calculationResults, costResults,
                     CompleteData(build, formData, calculationResults,
                                  costResults))

\* the submit handler from the sizing call on
SizeAndStore(formData, calculationResults) ==
    CostAndStore(formData, calculationResults,
                 ComputeCosts(build, calculationResults, formData.currency,
                              COST_MULTIPLIERS(build, configLoad),
                              EXCHANGE_RATES(build, configLoad)))

\* a submit handler that schedules the redirect whatever validation reports
SubmitRedirectsAnyway(c) ==
    IF ~c.ok
    THEN /\ notification' = ValidationNotice(build, c.errors)
         /\ redirect' = "results"
         /\ UNCHANGED <<sessionStorage, currentData, sizingCall, costingCall>>
    ELSE SizeAndStore(c.formData,
                      performNFPA2001Calculation(build, c.formData))

\* the submit handler, given what collectFormData returned or threw
Submit(c) ==
    IF ~c.ok
    THEN /\ notification' = ValidationNotice(build, c.errors)
         /\ UNCHANGED <<sessionStorage, currentData, redirect,
                        sizingCall, costingCall>>
    ELSE SizeAndStore(c.formData,
                      performNFPA2001Calculation(build, c.formData))

\* handleFormSubmission / handleFormSubmit
HandleFormSubmission ==
    /\ page = "calculator"
    /\ Submit(collectFormData(build, form))
    /\ UNCHANGED <<build, configLoad, page, form, display, changes, exported>>

\* loadCalculationData / loadCurrentData / loadQuotationData: this.currentData
\* after the page has read sessionStorage (script.js costs the stored sizing
\* result in USD on every load)
LoadedData(b, load, stored) ==
    IF stored = Null THEN Null
    ELSE IF b = "script"
    THEN [formData |-> stored.formData,
          calculationResults |-> stored.calculationResults,
          costResults |->
              calculateSystemCosts(b, Coerce(stored.calculationResults), "USD",
                                   COST_MULTIPLIERS(b, load),
                                   EXCHANGE_RATES(b, load))]
    ELSE stored

\* the loaders that schedule a return to the calculator when nothing is stored
RedirectsWhenMissing(b, p) ==
    \/ b \in {"script", "p001"}
    \/ b = "p004" /\ p = "results"

\* what the page shows once its init function has run
InitialDisplay(b, p, data) ==
    IF p = "results" /\ b # "script" /\ data # Null
    THEN PopulateResults(b, data) ELSE Blank

\* the init function of page p, given what its loader read
InitPage(p, data, missing) ==
    /\ page' = p
    /\ form' = DefaultForm(build)
    /\ changes' = 0
    /\ currentData' = data
    /\ display' = InitialDisplay(build, p, data)
    /\ notification' =
           IF missing THEN <<"No calculation data found">> ELSE <<>>
    /\ redirect' =
           IF missing /\ RedirectsWhenMissing(build, p)
           THEN "calculator" ELSE ""
    /\ costingCall' =
           IF build = "script" /\ data # Null
           THEN [input |-> Coerce(data.calculationResults),
                 currency |-> "USD", output |-> data.costResults]
           ELSE Null
    /\ sizingCall' = Null
    /\ exported' = Null
    /\ UNCHANGED <<build, configLoad, sessionStorage>>

\* the browser loads page p: the script runs again from the top, data.json is
\* fetched again (with the same outcome), and the page's init function runs
LoadPage(p) ==
    IF p = "calculator" \/ sessionStorage = Null
    THEN InitPage(p, Null, p # "calculator")
    ELSE InitPage(p, LoadedData(build, configLoad, sessionStorage), FALSE)

\* the pending setTimeout fires: window.location.href = ...
RedirectTimer ==
    /\ redirect # ""
    /\ LoadPage(redirect)

\* the user follows a link to page p
Navigate(p) == LoadPage(p)

\* updateCurrency + updateBOQCurrency of part_000, once: the summary is
\* recomputed from the stored total, each cell of the 7th column of the body
\* is parsed and multiplied by the rate, and the footer selector matches no
\* cell
P000UpdateCurrency(shown, data, newCurrency, rates) ==
    LET exchangeRate == RateOf(rates, newCurrency)
    IN  [currency |-> newCurrency,
         rows |-> [k \in 1 .. Len(shown.rows) |->
                      IF IsNaN(ParseCell(shown.rows[k])) THEN shown.rows[k]
                      ELSE formatCurrency(Mul(ParseCell(shown.rows[k]),
                                              exchangeRate))],
         footer |-> shown.footer,
         summary |-> <<formatCurrency(Mul(ToNumber(data.costResults.totalUSD),
                                          exchangeRate))>>]

\* this.currentData after updateCurrency of part_001
P001Patched(data, newCurrency, rates) ==
    [data EXCEPT !.formData.currency = newCurrency,
                 !.costResults.exchangeRate = RateOf(rates, newCurrency),
                 !.costResults.currency = newCurrency]

\* what part_001 shows after updateCurrency: the summary from totalUSD, the
\* BOQ re-rendered from the patched record
P001Display(data, newCurrency, rates) ==
    LET patched == P001Patched(data, newCurrency, rates)
    IN  [PopulateResults("p001", patched) EXCEPT
            !.summary = <<formatCurrency(Mul(ToNumber(data.costResults.totalUSD),
                                             RateOf(rates, newCurrency)))>>]

\* this.currentData after updateResultsCurrency of script.js
ScriptRecosted(data, newCurrency, m, rates) ==
    [data EXCEPT !.costResults =
        calculateSystemCosts("script", Coerce(data.calculationResults),
                             newCurrency, m, rates)]

\* the change event of the currency selector of the results page
UpdateCurrency(newCurrency) ==
    /\ page = "results"
    /\ build \in {"script", "p000", "p001"}
    /\ currentData # Null
    /\ changes < MaxCurrencyChanges
    /\ changes' = changes + 1
    /\ LET m == COST_MULTIPLIERS(build, configLoad)
           rates == EXCHANGE_RATES(build, configLoad)
       IN  CASE build = "script" ->
                  /\ currentData' = ScriptRecosted(currentData, newCurrency, m, rates)
                  /\ display' = renderBOQTable(currentData')
                  /\ costingCall' =
                         [input |-> Coerce(currentData.calculationResults),
                          currency |-> newCurrency,
                          output |-> currentData'.costResults]
                  /\ UNCHANGED <<sessionStorage, notification>>
             [] build = "p000" ->
                  \* two change listeners are attached: populateResults and
                  \* initResultsEventListeners each add one
                  /\ display' =
                         P000UpdateCurrency(
                             P000UpdateCurrency(display, currentData,
                                                newCurrency, rates),
                             currentData, newCurrency, rates)
                  /\ notification' = <<"Currency updated to ", newCurrency>>
                  /\ UNCHANGED <<sessionStorage, currentData, costingCall>>
             [] OTHER ->
                  /\ currentData' = P001Patched(currentData, newCurrency, rates)
                  /\ sessionStorage' = JsonRoundTrip(currentData')
                  /\ display' = P001Display(currentData, newCurrency, rates)
                  /\ UNCHANGED <<notification, costingCall>>
    /\ UNCHANGED <<build, configLoad, page, form, redirect, sizingCall, exported>>

\* the change event of the currency selector of the quotation page
UpdateQuotationCurrency(newCurrency) ==
    /\ page = "quotation"
    /\ build \in {"p000", "p001"}
    /\ currentData # Null
    /\ changes < MaxCurrencyChanges
    /\ changes' = changes + 1
    /\ notification' = <<"Quotation currency updated to ", newCurrency>>
    /\ IF build = "p001"
       THEN /\ currentData' =
                   P001Patched(currentData, newCurrency,
                               EXCHANGE_RATES(build, configLoad))
            /\ sessionStorage' = JsonRoundTrip(currentData')
       ELSE UNCHANGED <<sessionStorage, currentData>>
    /\ UNCHANGED <<build, configLoad, page, form, display, redirect,
                   sizingCall, costingCall, exported>>

\* the GRAND TOTAL line of the CSV file: the stored converted total, written
\* with two decimals
CsvGrandTotal(data) == round(ToNumber(data.costResults.totalConverted), 100)

\* the click on "Export BOQ": exportBOQToCSV
ExportBOQToCSV ==
    /\ page = "results"
    /\ build \in {"script", "p000", "p001"}
    /\ IF currentData = Null
       THEN /\ notification' = <<"No data available for export">>
            /\ UNCHANGED exported
       ELSE /\ exported' = [kind |-> "csv",
                            grandTotal |-> <<CsvGrandTotal(currentData)>>,
                            record |-> currentData.costResults]
            /\ notification' = <<"BOQ exported to CSV">>
    /\ UNCHANGED <<build, configLoad, page, form, sessionStorage, currentData,
                   display, redirect, changes, sizingCall, costingCall>>

\* the total row of the report printResultsAsPDF of script.js writes
PrintedTotal(data) == formatCurrency(data.costResults.totalConverted)

\* the click on "Print": printResultsAsPDF in script.js builds a report from
\* the record, the other revisions print the page as it is shown
PrintResults ==
    /\ page = "results"
    /\ IF build = "script"
       THEN IF currentData = Null
            THEN /\ notification' = <<"No calculation data available for printing">>
                 /\ UNCHANGED exported
            ELSE /\ exported' = [kind |-> "print",
                                 grandTotal |-> <<PrintedTotal(currentData)>>,
                                 record |-> currentData.costResults]
                 /\ UNCHANGED notification
       ELSE /\ currentData # Null
            /\ exported' = [kind |-> "print", grandTotal |-> display.footer,
                            record |-> currentData.costResults]
            /\ UNCHANGED notification
    /\ UNCHANGED <<build, configLoad, page, form, sessionStorage, currentData,
                   display, redirect, changes, sizingCall, costingCall>>

Next ==
    \/ \E f \in FormCases(build) : EditForm(f)
    \/ HandleFormSubmission
    \/ RedirectTimer
    \/ \E p \in Pages : Navigate(p)
    \/ \E c \in Currencies : UpdateCurrency(c)
    \/ \E c \in Currencies : UpdateQuotationCurrency(c)
    \/ ExportBOQToCSV
    \/ PrintResults

Spec == Init /\ [][Next]_vars

----------------------------------------------------------------------------
(* Properties                                                              *)

\* the rates in effect on this page
Rates == EXCHANGE_RATES(build, configLoad)

\* the display in which every amount is the base figure converted once at
\* the rate of the given currency
ConvertedFromBase(b, data, rates, currency) ==
    LET rate == RateOf(rates, currency)
    IN  [currency |-> currency,
         rows |-> ConvertAll(BoqBaseTotals(b, data), rate),
         footer |-> <<formatCurrency(Mul(GrandTotalBase(b, data), rate))>>,
         summary |-> IF b = "script" THEN <<>>
                     ELSE <<formatCurrency(Mul(GrandTotalBase(b, data), rate))>>]

\* a shown amount agrees with the expected one to the cent
Shows(shown, expected) ==
    IF IsNaN(expected) THEN IsNaN(shown)
    ELSE Within(shown, expected, Frac(1, 100))

ShowsAll(shown, expected) ==
    /\ Len(shown) = Len(expected)
    /\ \A k \in 1 .. Len(expected) : Shows(shown[k], expected[k])

\* C1: on the results page, after any sequence of currency selections, the
\* summary total, every BOQ row and the footer total show the unchanged
\* base-currency figure multiplied once by the rate of the currency now
\* selected.
C1_DisplayFromBase ==
    (page = "results" /\ changes > 0 /\ currentData # Null) =>
        LET want == ConvertedFromBase(build, currentData, Rates, display.currency)
        IN  /\ ShowsAll(display.rows, want.rows)
            /\ ShowsAll(display.footer, want.footer)
            /\ ShowsAll(display.summary, want.summary)

\* the currency a stored breakdown is in (part_004 keeps it in the form data)
BreakdownCurrency(data) ==
    IF "currency" \in DOMAIN data.costResults
    THEN data.costResults.currency ELSE data.formData.currency

BreakdownTotal(c) ==
    IF "totalUSD" \in DOMAIN c THEN c.totalUSD ELSE c.totalCostUSD

BreakdownConverted(c) ==
    IF "totalConverted" \in DOMAIN c THEN c.totalConverted ELSE c.totalCostConverted

\* exchangeRate is the table rate of the record's currency and the converted
\* total is the base total times that rate, up to the rounding of both totals
SelfConsistent(data, rates) ==
    LET c == Coerce(data.costResults)
    IN  /\ c.exchangeRate = RateOf(rates, BreakdownCurrency(data))
        /\ Within(BreakdownConverted(c),
                  Mul(BreakdownTotal(c), c.exchangeRate),
                  Div(Add(c.exchangeRate, Num(1)), Num(200)))

\* C2: after a calculation and any sequence of currency changes on the
\* results or quotation page, the stored cost breakdown carries the table
\* rate of its own currency and a converted total equal to its base total
\* times that rate, up to 2-decimal rounding.
C2_StoredBreakdownConsistent ==
    HasCosts(sessionStorage) => SelfConsistent(sessionStorage, Rates)

\* the constraints of a RoomInput, on the values the engine reads
SatisfiesRoomInput(b, f) ==
    /\ f.roomLength > 0 /\ f.roomWidth > 0 /\ f.roomHeight > 0
    /\ -20 <= f.temperature /\ f.temperature <= 60
    /\ f.altitude >= 0
    /\ Leq(Num(1), SafetyFactorOf(b, f)) /\ Leq(SafetyFactorOf(b, f), Frac(15, 10))
    /\ Leq(Num(7), ConcentrationOf(b, f))
    /\ Leq(ConcentrationOf(b, f), Frac(105, 10))

\* C3: on form submission the sizing engine is invoked only with an input
\* whose dimensions are positive, whose temperature is within -20..60, whose
\* altitude is not negative, whose safety factor is within 1.0..1.5 and whose
\* concentration is within 7.0..10.5.
C3_EngineOnlyOnValidInput ==
    sizingCall # Null => SatisfiesRoomInput(build, sizingCall.input)

\* the keys of the price table the costing engine of a revision reads
RequiredPriceKeys(b) ==
    IF b = "p004" THEN DOMAIN P004PriceTable ELSE DOMAIN FullPriceTable

\* C4: the costing engine returns a breakdown only when the price table in
\* effect has every price and factor key it reads, and no cost of a returned
\* breakdown is NaN.
C4_NoBreakdownWithoutPrices ==
    costingCall # Null =>
        /\ RequiredPriceKeys(build) \subseteq DOMAIN COST_MULTIPLIERS(build, configLoad)
        /\ \A k \in DOMAIN costingCall.output \ {"currency"} :
               ~IsNaN(costingCall.output[k])

\* C5: a call of the sizing engine with an input that violates a domain
\* constraint yields no sizing result.
C5_InvalidInputRejected ==
    (sizingCall # Null /\ ~SatisfiesRoomInput(build, sizingCall.input)) =>
        sizingCall.output = Null

\* C6: every record written to storage holds the sizing result together with
\* the cost breakdown derived from it in the same request.
C6_StoredRecordComplete ==
    sessionStorage # Null =>
        {"calculationResults", "costResults"} \subseteq DOMAIN sessionStorage

\* the markup fields of a returned breakdown and the factors behind them
MarkupFields(b, c) ==
    IF b = "p004" THEN <<c.installationCost, c.engineeringCost>>
    ELSE <<c.installationFactorCost, c.engineeringFactorCost, c.contingency>>

MarkupFactors(b, m) ==
    IF b = "p004"
    THEN <<Price(m, "installationFactor"), Price(m, "engineeringFactor")>>
    ELSE <<Price(m, "installationFactor"), Price(m, "engineeringFactor"),
           Price(m, "contingencyFactor")>>

\* C7: the markups of a returned breakdown add up to its equipment subtotal
\* times (the sum of the markup factors less one for each factor), to the
\* cent: every markup is taken on the equipment subtotal alone.
C7_MarkupsOnEquipmentOnly ==
    (costingCall # Null /\ ~IsNaN(costingCall.output.equipmentSubtotal)) =>
        LET c == costingCall.output
            factors == MarkupFactors(build, COST_MULTIPLIERS(build, configLoad))
        IN  Within(SumSeq(MarkupFields(build, c)),
                   Mul(c.equipmentSubtotal,
                       Sub(SumSeq(factors), Num(Len(factors)))),
                   Frac(2, 100))

\* C8: the base-currency total of a breakdown returned by
\* calculateSystemCosts equals the sum of the equipment subtotal, the
\* installation labor, the three fixed fees and the three markups of the same
\* record.
C8_TotalIsSumOfFields ==
    (costingCall # Null /\ build # "p004"
        /\ ~IsNaN(costingCall.output.totalUSD)) =>
        LET c == costingCall.output
        IN  c.totalUSD =
                SumSeq(<<c.equipmentSubtotal, c.installationLabor,
                         c.engineeringDesign, c.commissioningTesting,
                         c.documentation, c.installationFactorCost,
                         c.engineeringFactorCost, c.contingency>>)

\* the per-line-item equipment costs of a returned breakdown
EquipmentItems(b, c) ==
    IF b = "p004"
    THEN <<c.agentCost, c.cylinderCost, c.nozzleCost, c.pipingCost,
           c.detectionCost, c.actuationCost, c.controlPanelCost,
           c.warningSignsCost>>
    ELSE <<c.agentCost, c.cylinderCost, c.valveCost, c.mountingCost,
           c.nozzleCost, c.pipingCost, c.fittingsCost, c.detectionCost,
           c.smokeDetectors, c.heatDetectors, c.manualCallPoints,
           c.hooterStrobes, c.warningSigns>>

ExampleRoom ==
    [roomLength |-> 10, roomWidth |-> 8, roomHeight |-> 4, temperature |-> 20,
     altitude |-> 0, concentration |-> 70, equipmentVolume |-> 0,
     safetyFactor |-> 107, cylinderSize |-> 544, currency |-> "USD"]

\* (320 / 0.1369) x (7 / 93) x 1.07
ExampleFormula ==
    Mul(Mul(Div(Num(320), Frac(1369, 10000)), Div(Num(7), Num(93))),
        Frac(107, 100))

\* the results of the example other than the agent weight
ExampleSizing(r) ==
    /\ r.specificVaporVolume = Frac(1369, 10000)
    /\ r.grossVolume = Num(320)
    /\ r.netVolume = Num(320)
    /\ r.cylinderCount = Num(4)
    /\ r.nozzleCount = Num(2)
    /\ r.pipingLength = Num(44)

----------------------------------------------------------------------------
(* Altitude correction                                                     *)

\* the correction the specification states: 1 + ((altitude - 500) / 300) * 0.01
StatedAltitudeFactor(altitude) ==
    Add(Num(1), Mul(Div(Num(altitude - 500), Num(300)), Frac(1, 100)))

\* the form of a sizing call with the altitude set to sea level
AtSeaLevel(f) == [f EXCEPT !.altitude = 0]

\* C11: the agent weight of a sizing call is the sea-level weight for every
\* altitude from 0 to 500, and above 500 it is the uncorrected weight times
\* 1 + ((altitude - 500) / 300) * 0.01
C11_AltitudeCorrection ==
    sizingCall # Null =>
        /\ sizingCall.input.altitude \in 0 .. 500 =>
               sizingCall.output.agentWeight =
                   performNFPA2001Calculation(
                       build, AtSeaLevel(sizingCall.input)).agentWeight
        /\ sizingCall.input.altitude > 500 =>
               sizingCall.output.agentWeight =
                   round(Mul(AgentWeight(build, AtSeaLevel(sizingCall.input)),
                             StatedAltitudeFactor(sizingCall.input.altitude)),
                         100)

----------------------------------------------------------------------------
(* Net volume                                                              *)

GrossVolume(f) == Num(f.roomLength * f.roomWidth * f.roomHeight)

\* the net volume the specification states: max(0.1, grossVolume - equipmentVolume)
StatedNetVolume(f) ==
    IF Less(GrossVolume(f), Num(f.equipmentVolume)) THEN Frac(1, 10)
    ELSE Max(Frac(1, 10), Sub(GrossVolume(f), Num(f.equipmentVolume)))

\* C12: the net volume of every sizing call is max(0.1, grossVolume -
\* equipmentVolume), so the net volume and the agent weight are strictly
\* positive
C12_NetVolumeFloor ==
    sizingCall # Null =>
        /\ sizingCall.output.netVolume =
               round(StatedNetVolume(sizingCall.input), 100)
        /\ Less(Num(0), sizingCall.output.netVolume)
        /\ Less(Num(0), sizingCall.output.agentWeight)

----------------------------------------------------------------------------
(* Cylinder count                                                          *)

IsInteger(x) == ~IsNaN(x) /\ x.n = 0

\* C13: for every form the validation accepted, the cylinder count is an
\* integer >= 1 equal to ceil(agentWeight / cylinderSize), taken from the
\* weight after the altitude and safety-factor corrections
C13_CylinderCount ==
    sizingCall # Null =>
        /\ IsInteger(sizingCall.output.cylinderCount)
        /\ Leq(Num(1), sizingCall.output.cylinderCount)
        /\ sizingCall.output.cylinderCount =
               Ceil(Div(AgentWeight(build, sizingCall.input),
                        CylinderSizeOf(build, sizingCall.input)))

----------------------------------------------------------------------------
(* Currency changes and the stored breakdown                               *)

\* a currency change event to currency c, on either page
CurrencyChange(c) == UpdateCurrency(c) \/ UpdateQuotationCurrency(c)

\* the breakdown the costing engine computes from the retained sizing result
FreshBreakdown(c) ==
    ComputeCosts(build, Coerce(currentData.calculationResults), c,
                 COST_MULTIPLIERS(build, configLoad),
                 EXCHANGE_RATES(build, configLoad))

\* C14: a currency change replaces the breakdown of the current record by the
\* one the costing engine computes from the retained sizing result for the new
\* currency, and leaves the sizing result unchanged
C14_CurrencyChangeRecosts ==
    [][\A c \in Currencies :
          CurrencyChange(c) =>
              /\ currentData'.costResults = FreshBreakdown(c)
              /\ currentData'.calculationResults =
                     currentData.calculationResults]_vars

----------------------------------------------------------------------------
(* Purity of the engines                                                   *)

\* what the costing engine of revision b returns for the same arguments when
\* loading data.json ended with outcome load
CostsUnder(b, load, call) ==
    ComputeCosts(b, call.input, call.currency,
                 COST_MULTIPLIERS(b, load), EXCHANGE_RATES(b, load))

\* C15: the engines are pure: a sizing call returns what the engine returns
\* for its argument, and a costing call returns the same record for its
\* arguments however loading the configuration ended
C15_EnginesArePure ==
    /\ sizingCall # Null =>
           sizingCall.output =
               performNFPA2001Calculation(build, sizingCall.input)
    /\ costingCall # Null =>
           \A load \in LoadOutcomes(build) :
               costingCall.output = CostsUnder(build, load, costingCall)

----------------------------------------------------------------------------
(* Consumers of the stored records                                         *)

\* the converted total of a breakdown, as a consumer shows it
ShownConvertedTotal(b, costResults) ==
    <<formatCurrency(TotalConverted(b, [costResults |-> costResults]))>>

\* C16: every consumer shows the converted total of the record it was produced
\* from: the grand total of the BOQ table on screen, of the printed report and
\* of the CSV export
C16_ConsumersAgree ==
    /\ (page = "results" /\ HasCosts(currentData) /\ display.footer # <<>>) =>
           display.footer = ShownConvertedTotal(build, currentData.costResults)
    /\ exported # Null =>
           exported.grandTotal = ShownConvertedTotal(build, exported.record)

----------------------------------------------------------------------------
(* Rounding                                                                *)

\* the agent cost computed from the full-precision agent weight of form f
FullPrecisionAgentCost(b, f, m) ==
    round(Mul(AgentWeight(b, f), Price(m, "agentCostPerKg")), 100)

\* C17: values are rounded only when placed in an output record: the cylinder
\* count and the agent cost of a submission are computed from the
\* full-precision agent weight, not from its rounded output field
C17_RoundedOnlyAtOutput ==
    (sizingCall # Null /\ costingCall # Null
        /\ costingCall.input = sizingCall.output) =>
        /\ sizingCall.output.cylinderCount =
               Ceil(Div(AgentWeight(build, sizingCall.input),
                        sizingCall.output.cylinderSize))
        /\ costingCall.output.agentCost =
               FullPrecisionAgentCost(build, sizingCall.input,
                                      COST_MULTIPLIERS(build, configLoad))

----------------------------------------------------------------------------
(* Volume monotonicity                                                     *)

Dimensions == {"roomLength", "roomWidth", "roomHeight"}

\* the form with one dimension a metre larger
Enlarged(f, dim) == [f EXCEPT ![dim] = @ + 1]

\* grossVolume - equipmentVolume lies above the floor of 0.1
AboveFloor(f) ==
    Less(Add(Num(f.equipmentVolume), Frac(1, 10)), GrossVolume(f))

\* the three fields grow strictly when dimension dim of form f grows
GrowsStrictly(b, f, dim) ==
    /\ Less(performNFPA2001Calculation(b, f).grossVolume,
            performNFPA2001Calculation(b, Enlarged(f, dim)).grossVolume)
    /\ Less(performNFPA2001Calculation(b, f).netVolume,
            performNFPA2001Calculation(b, Enlarged(f, dim)).netVolume)
    /\ Less(performNFPA2001Calculation(b, f).agentWeight,
            performNFPA2001Calculation(b, Enlarged(f, dim)).agentWeight)

----------------------------------------------------------------------------
(* Safety factor                                                           *)

\* the form with the safety factor set to sf percent
WithSafetyFactor(f, sf) == [f EXCEPT !.safetyFactor = sf]

\* C19: the agent weight is the altitude-corrected weight times the safety
\* factor of the form, and for a form whose fields were left empty (no safety
\* factor supplied) it equals the weight obtained with safety factor 1.0
C19_SafetyFactorIdentityWhenOmitted ==
    sizingCall # Null =>
        /\ build # "script" =>
               sizingCall.output.agentWeight =
                   round(Mul(AgentWeight(build,
                                         WithSafetyFactor(sizingCall.input, 100)),
                             Frac(sizingCall.input.safetyFactor, 100)), 100)
        /\ sizingCall.input = DefaultForm(build) =>
               sizingCall.output.agentWeight =
                   performNFPA2001Calculation(
                       build, WithSafetyFactor(sizingCall.input, 100)).agentWeight

----------------------------------------------------------------------------
(* Currencies absent from the exchange-rate table                          *)

\* the currency of a costing call has no entry in the table in effect
CurrencyAbsent(call) ==
    call.currency \notin DOMAIN EXCHANGE_RATES(build, configLoad)

\* the base-currency total of a breakdown
BaseTotal(b, costResults) ==
    IF b = "p004" THEN costResults.totalCostUSD ELSE costResults.totalUSD

----------------------------------------------------------------------------
(* Currency round trip                                                     *)

\* |x - y| <= y / 1000000
WithinRelative(x, y) ==
    /\ ~IsNaN(x) /\ ~IsNaN(y)
    /\ Leq(Mul(Dist(x, y), Num(1000000)), y)

\* C21: for a costing call in a currency of the rate table, the returned
\* converted total divided by the returned exchange rate reproduces the
\* returned base-currency total within a relative tolerance of 1e-6
C21_ConversionRoundTrip ==
    (costingCall # Null /\ ~CurrencyAbsent(costingCall)) =>
        WithinRelative(
            Div(TotalConverted(build, [costResults |-> costingCall.output]),
                costingCall.output.exchangeRate),
            BaseTotal(build, costingCall.output))

----------------------------------------------------------------------------
(* Nozzle count                                                            *)

FloorArea(f) == f.roomLength * f.roomWidth

\* C22: the nozzle count of every sizing call is max(2, ceil(floorArea / 50))
\* with floorArea = length x width: exactly 2 for a floor area below 100 m2,
\* and never below 2
C22_NozzleCount ==
    sizingCall # Null =>
        /\ sizingCall.output.floorArea = Num(FloorArea(sizingCall.input))
        /\ sizingCall.output.nozzleCount =
               Max(Num(2), Ceil(Div(Num(FloorArea(sizingCall.input)), Num(50))))
        /\ FloorArea(sizingCall.input) < 100 =>
               sizingCall.output.nozzleCount = Num(2)
        /\ Leq(Num(2), sizingCall.output.nozzleCount)

\* a sizing call for a floor area below 100 m2 returned 2 nozzles
C22_Witness ==
    /\ sizingCall # Null
    /\ FloorArea(sizingCall.input) \in 1 .. 99
    /\ sizingCall.output.nozzleCount = Num(2)

----------------------------------------------------------------------------
(* Detection devices                                                       *)

DetectorFields ==
    {"smokeDetectors", "heatDetectors", "manualCallPoints", "hooterStrobes"}

\* the price of k devices at the unit price under key, as a breakdown holds it
DevicesPriced(k, m, key) == round(Mul(k, Price(m, key)), 100)

\* C23: every costing call prices 2 heat detectors, 2 manual call points,
\* 4 hooter/strobes and max(2, ceil(floorArea / 100)) smoke detectors
C23_DetectionDevices ==
    costingCall # Null =>
        /\ DetectorFields \subseteq DOMAIN costingCall.output
        /\ costingCall.output.heatDetectors =
               DevicesPriced(Num(2), COST_MULTIPLIERS(build, configLoad),
                             "heatDetector")
        /\ costingCall.output.manualCallPoints =
               DevicesPriced(Num(2), COST_MULTIPLIERS(build, configLoad),
                             "manualCallPoint")
        /\ costingCall.output.hooterStrobes =
               DevicesPriced(Num(4), COST_MULTIPLIERS(build, configLoad),
                             "hooterStrobe")
        /\ costingCall.output.smokeDetectors =
               DevicesPriced(
                   Max(Num(2), Ceil(Div(costingCall.input.floorArea, Num(100)))),
                   COST_MULTIPLIERS(build, configLoad), "smokeDetector")

----------------------------------------------------------------------------
(* Installation labor                                                      *)

\* installationHours = 40 + 4 x cylinderCount + 2 x nozzleCount + 0.5 x pipingLength
StatedInstallationHours(cr) ==
    SumSeq(<<Num(40), Mul(Num(4), cr.cylinderCount), Mul(Num(2), cr.nozzleCount),
             Mul(Frac(1, 2), cr.pipingLength)>>)

\* the installation labor field of a breakdown
LaborField(b, costResults) ==
    IF b = "p004" THEN costResults.installationLaborCost
    ELSE costResults.installationLabor

\* C24: the installation labor of every costing call is (40 + 4 x cylinderCount
\* + 2 x nozzleCount + 0.5 x pipingLength) x the hourly labor rate of the price
\* table
C24_InstallationLabor ==
    costingCall # Null =>
        LaborField(build, costingCall.output) =
            round(Mul(StatedInstallationHours(costingCall.input),
                      Price(COST_MULTIPLIERS(build, configLoad),
                            "installationLaborPerHour")), 100)

\* ---------------------------------------------------------------------------
\* C25: on the results and quotation pages, when no calculation record is in
\* storage, this.currentData stays null and a redirect to the calculator page
\* is issued (the timer is pending from the moment the page has loaded).
MissingRecord ==
    /\ page \in {"results", "quotation"}
    /\ sessionStorage = Null

C25_MissingRecordRedirects ==
    MissingRecord => (currentData = Null /\ redirect = "calculator")

\* ---------------------------------------------------------------------------
\* C26: when form validation reports at least one error, the submission has
\* no other effect: the sizing engine is not run, the record in session
\* storage is left as it was, and no redirect is scheduled.
ValidationFails == FormErrors(build, form) # <<>>

C26_FailedSubmissionFrame ==
    [][(HandleFormSubmission /\ ValidationFails) =>
           UNCHANGED <<sessionStorage, currentData, sizingCall, costingCall,
                       redirect>>]_vars

\* a rejected submission on a page that holds an earlier record
C26_Witness ==
    /\ page = "calculator"
    /\ ValidationFails
    /\ notification = ValidationNotice(build, FormErrors(build, form))
    /\ sessionStorage # Null
    /\ redirect = ""

\* ---------------------------------------------------------------------------
\* C27: for every form accepted by validation with altitude <= 500, the agent
\* mass the quick preview shows equals the agentWeight the sizing engine
\* returns on submission of the same form values, both at 2 decimals, also
\* at designTemperature = 0.

\* parseFloat(value) || fallback for the integer fields of the form
OrDefault(v, fallback) == IF v = 0 THEN fallback ELSE v

\* the agent mass updateQuickPreview shows for the form (Null where the
\* preview has no agent figure)
updateQuickPreview(b, f) ==
    CASE b = "script" ->
           LET length == OrDefault(f.roomLength, 10)
               width  == OrDefault(f.roomWidth, 8)
               height == OrDefault(f.roomHeight, 3)
               temp   == OrDefault(f.temperature, 20)
               C      == Frac(OrDefault(f.concentration, 75), 10)
               volume == Num(length * width * height)
           IN  round(Mul(Div(volume, SpecificVaporVolume(temp)),
                         Div(C, Sub(Num(100), C))), 100)
      [] b = "p001" -> Null
      [] OTHER ->
           LET volume == Num(f.roomLength * f.roomWidth * f.roomHeight)
           IN  round(Mul(volume, Frac(73, 100)), IF b = "p000" THEN 10 ELSE 100)

\* the form on the page is the one that was submitted, and it is in the
\* range the statement is about
SubmittedAsShown ==
    /\ page = "calculator"
    /\ sizingCall # Null
    /\ sizingCall.input = form
    /\ form.altitude <= 500

C27_PreviewMatchesEngine ==
    SubmittedAsShown =>
        updateQuickPreview(build, form) = sizingCall.output.agentWeight

\* ---------------------------------------------------------------------------
\* C28: for every result the sizing engine produces from a form accepted by
\* validation, cylinderCount x cylinderSize is at least the reported
\* (2-decimal) agentWeight: the cylinders hold the agent.
InstalledCapacity(cr) == Mul(cr.cylinderCount, cr.cylinderSize)

P004FormData(f) ==
    [roomLength |-> f.roomLength, roomWidth |-> f.roomWidth,
     roomHeight |-> f.roomHeight, equipmentVolume |-> f.equipmentVolume,
     minTemperature |-> f.temperature, altitude |-> f.altitude,
     currency |-> f.currency,
     safetyFactor |-> Div(Num(f.safetyFactor), Num(100)),
     cylinderSize |-> Frac(f.cylinderSize, 10)]

\* saveAsTemplate: the formData of the template pushed last
saveAsTemplate(f) == P004FormData(f)

\* the safetyFactor element is either a text/number input, which keeps the
\* text assigned to it, or a select, which shows no option when the text
\* assigned matches none
SafetyFactorControls == {"input", "select"}

\* parseInt of what the safetyFactor element holds after
\* element.value = lastTemplate.formData.safetyFactor
ParseIntAfterLoad(saved, control) ==
    IF control = "select" /\ saved.n # 0 THEN NaN ELSE Num(saved.i)

\* collectFormData after loadSavedTemplate has written every key of the
\* template into the element of that id
CollectAfterLoad(template, control) ==
    [template EXCEPT
        !.safetyFactor = Div(ParseIntAfterLoad(template.safetyFactor, control),
                             Num(100))]

TemplateSaved ==
    /\ build = "p004"
    /\ page = "calculator"
    /\ FormErrors(build, form) = <<>>

C29_TemplateRoundTrip ==
    TemplateSaved =>
        \A control \in SafetyFactorControls :
            CollectAfterLoad(saveAsTemplate(form), control) = P004FormData(form)

\* ---------------------------------------------------------------------------
\* C30: in the quotation BOQ no cost is counted twice: the subtotal before
\* tax, the sum of the listed quotation items, equals the breakdown's
\* base-currency total converted at the selected currency's rate.

\* the total column of quoteItems in populateQuotationBOQ of part_000: item 1
\* (the complete system), items 1.1 to 1.4, item 2 and item 3
QuoteItemTotals(costResults, exchangeRate) ==
    LET c == Coerce(costResults)
    IN  <<Mul(c.totalUSD, exchangeRate),
          Mul(c.agentCost, exchangeRate),
          Mul(Add(c.cylinderCost, c.valveCost), exchangeRate),
          Mul(SumSeq(<<c.nozzleCost, c.pipingCost, c.fittingsCost>>),
              exchangeRate),
          Mul(SumSeq(<<c.detectionCost, c.smokeDetectors, c.heatDetectors,
                       c.manualCallPoints, c.hooterStrobes, c.warningSigns>>),
              exchangeRate),
          Mul(Add(c.installationLabor, c.commissioningTesting), exchangeRate),
          Mul(Add(c.engineeringDesign, c.documentation), exchangeRate)>>

\* quoteItems.reduce((sum, item) => sum + item.total, 0)
QuotationSubtotal(costResults, exchangeRate) ==
    SumSeq(QuoteItemTotals(costResults, exchangeRate))

\* the quotation page of part_000 shows a BOQ
QuotationShown ==
    /\ build = "p000"
    /\ page = "quotation"
    /\ currentData # Null

C30_QuotationSubtotal ==
    QuotationShown =>
        \A currency \in Currencies :
            LET exchangeRate ==
                    RateOf(EXCHANGE_RATES(build, configLoad), currency)
            IN  QuotationSubtotal(currentData.costResults, exchangeRate) =
                    Mul(ToNumber(currentData.costResults.totalUSD), exchangeRate)

====
